---- MODULE Spec2Model ----
(***************************************************************************)
(* Scheme selection of the compressed-tensors quantization config          *)
(* (python/sglang/srt/layers/quantization/compressed_tensors/              *)
(* compressed_tensors.py): the classifier predicates, the device           *)
(* capability gate, get_scheme / get_quant_method on a layer, the          *)
(* get_cache_scale name rewrite, the linear method's create_weights /      *)
(* apply, and the construction of target_scheme_map from a raw config.     *)
(*                                                                         *)
(* Python values: None is the empty tuple; an Optional scalar v is <<v>>   *)
(* (Some(v)) so that it compares with None; objects are records.  A call   *)
(* ends in an outcome [raised, value]: raised is "None" or the name of     *)
(* the exception class, value is what was returned.                        *)
(***************************************************************************)
EXTENDS Integers, Sequences, FiniteSets, TLC

VARIABLES VLLM_AVAILABLE, device_capability, config, layer, call

vars == <<VLLM_AVAILABLE, device_capability, config, layer, call>>

None == <<>>

Some(v) == <<v>>

Returned(v) == [raised |-> "None", value |-> v]

Raised(e) == [raised |-> e, value |-> None]

(***************************************************************************)
(* Enumerations of the compressed_tensors package (their .value strings).  *)
(***************************************************************************)
FLOAT == "float"

INT == "int"

TENSOR == "tensor"

CHANNEL == "channel"

GROUP == "group"

TOKEN == "token"

TWO_FOUR == "2:4"

UNSTRUCTURED == "unstructured"

dense == "dense"

sparse_24_bitmask == "sparse-24-bitmask"

sparse_bitmask == "sparse-bitmask"

marlin_24 == "marlin-24"

pack_quantized == "pack-quantized"

float_quantized == "float-quantized"

int_quantized == "int-quantized"

naive_quantized == "naive-quantized"

\* vllm's WNA16_SUPPORTED_BITS (the keys of its supported-types map).
WNA16_SUPPORTED_BITS == {4, 8}

\* utils.is_activation_quantization_format(format)
is_activation_quantization_format(format) ==
    format \in {naive_quantized, int_quantized, float_quantized}


\* vllm's W4A16SPARSE24_SUPPORTED_BITS; this module never imports the name.
W4A16SPARSE24_SUPPORTED_BITS == {4}

(***************************************************************************)
(* The names the module binds at import time (lines 5-56).  A name used    *)
(* in a method body and not bound here raises NameError when evaluated.    *)
(***************************************************************************)
ModuleGlobals ==
    { "CompressionFormat", "SparsityCompressionConfig", "SparsityStructure",
      "QuantizationArgs", "QuantizationStrategy", "QuantizationType",
      "CompressedTensorsMoEMethod", "CompressedTensorsScheme",
      "CompressedTensorsW8A8Fp8", "CompressedTensorsW8A16Fp8",
      "find_matched_target", "is_activation_quantization_format",
      "should_ignore_layer", "UnquantizedLinearMethod", "VLLM_AVAILABLE" }
    \cup (IF VLLM_AVAILABLE
          THEN {"WNA16_SUPPORTED_BITS", "CompressedTensorsWNA16"}
          ELSE {})

\* Evaluating a global name: NameError unless the module binds it.
Bound(name) == name \in ModuleGlobals

(***************************************************************************)
(* Scheme objects: the class and the constructor's keyword arguments.      *)
(***************************************************************************)
CompressedTensorsW8A8Fp8(strategy, is_static_input_scheme) ==
    [cls |-> "CompressedTensorsW8A8Fp8", strategy |-> strategy,
     is_static_input_scheme |-> is_static_input_scheme]

CompressedTensorsW8A16Fp8(strategy, is_static_input_scheme) ==
    [cls |-> "CompressedTensorsW8A16Fp8", strategy |-> strategy,
     is_static_input_scheme |-> is_static_input_scheme]

CompressedTensorsW8A8Int8(strategy, is_static_input_scheme, input_symmetric) ==
    [cls |-> "CompressedTensorsW8A8Int8", strategy |-> strategy,
     is_static_input_scheme |-> is_static_input_scheme,
     input_symmetric |-> input_symmetric]

CompressedTensorsWNA16(num_bits, strategy, group_size, actorder) ==
    [cls |-> "CompressedTensorsWNA16", num_bits |-> num_bits,
     strategy |-> strategy, group_size |-> group_size, actorder |-> actorder]

CompressedTensorsW4A16Sparse24(strategy, num_bits, group_size) ==
    [cls |-> "CompressedTensorsW4A16Sparse24", strategy |-> strategy,
     num_bits |-> num_bits, group_size |-> group_size]

CompressedTensors24(quantized, weight_quant, input_quant, model_compression_config) ==
    [cls |-> "CompressedTensors24", quantized |-> quantized,
     weight_quant |-> weight_quant, input_quant |-> input_quant,
     model_compression_config |-> model_compression_config]

\* scheme.get_min_capability() of each scheme class (schemes package).
get_min_capability(cls) ==
    CASE cls = "CompressedTensorsW8A8Fp8" -> 89
      [] cls = "CompressedTensorsW8A16Fp8" -> 80
      [] cls = "CompressedTensorsW8A8Int8" -> 75
      [] cls = "CompressedTensorsWNA16" -> 80
      [] cls = "CompressedTensorsW4A16Sparse24" -> 80
      [] cls = "CompressedTensors24" -> 90

(***************************************************************************)
(* DeviceCapability.to_int and the capability gate.  The device is         *)
(* torch.cuda.get_device_capability(), a (major, minor) pair.              *)
(***************************************************************************)
\* mutant: the minor version is dropped
to_int_major_only(capability_tuple) ==
    IF ~(0 <= capability_tuple[2] /\ capability_tuple[2] < 10)
    THEN Raised("AssertionError")
    ELSE Returned(capability_tuple[1] * 10)

\* lines 67-74: the minor version must be a single digit
to_int(capability_tuple) ==
    IF ~(0 <= capability_tuple[2] /\ capability_tuple[2] < 10)
    THEN Raised("AssertionError")
    ELSE Returned(capability_tuple[1] * 10 + capability_tuple[2])

\* mutant: the fatal mode reports instead of raising
check_scheme_supported_never_raises(min_capability, error) ==
    LET capability == to_int(device_capability)
    IN  IF capability.raised # "None"
        THEN capability
        ELSE Returned(capability.value >= min_capability)

check_scheme_supported(min_capability, error) ==
    LET capability_tuple == device_capability
        capability == to_int(capability_tuple)
    IN  IF capability.raised # "None"
        THEN capability
        ELSE LET supported == capability.value >= min_capability
             IN  IF error /\ ~supported
                 THEN Raised("RuntimeError")
                 ELSE Returned(supported)

(***************************************************************************)
(* The eligibility predicates.  Each takes QuantizationArgs records (or    *)
(* None); reading an attribute of None raises AttributeError.              *)
(***************************************************************************)
is_static_tensor_w8a8(weight_quant, input_quant) ==
    IF weight_quant = None \/ input_quant = None
    THEN Raised("AttributeError")
    ELSE LET is_8_bits == weight_quant.num_bits = input_quant.num_bits
                          /\ input_quant.num_bits = 8
             weight_strategy == weight_quant.strategy = TENSOR
                                \/ weight_quant.strategy = CHANNEL
             is_tensor == weight_strategy /\ input_quant.strategy = TENSOR
             is_static == ~weight_quant.dynamic /\ ~input_quant.dynamic
         IN  Returned(is_8_bits /\ is_tensor /\ weight_quant.symmetric /\ is_static)

is_dynamic_token_w8a8(weight_quant, input_quant) ==
    IF weight_quant = None \/ input_quant = None
    THEN Raised("AttributeError")
    ELSE LET is_8_bits == weight_quant.num_bits = input_quant.num_bits
                          /\ input_quant.num_bits = 8
             weight_strategy == weight_quant.strategy = TENSOR
                                \/ weight_quant.strategy = CHANNEL
             is_token == weight_strategy /\ input_quant.strategy = TOKEN
             is_dynamic == ~weight_quant.dynamic /\ input_quant.dynamic
         IN  Returned(is_8_bits /\ is_token /\ weight_quant.symmetric /\ is_dynamic)

is_fp8_w8a8(weight_quant, input_quant) ==
    IF weight_quant = None \/ input_quant = None
    THEN FALSE
    ELSE LET is_floating_point == weight_quant.type = FLOAT /\ input_quant.type = FLOAT
             is_symmetric_weight == weight_quant.symmetric
             is_static_weight == ~weight_quant.dynamic
             is_per_tensor_or_channel_weight == weight_quant.strategy \in {TENSOR, CHANNEL}
         IN  IF ~(is_floating_point /\ is_symmetric_weight /\ is_static_weight
                  /\ is_per_tensor_or_channel_weight)
             THEN FALSE
             ELSE IF input_quant.dynamic
                  THEN TRUE
                  ELSE input_quant.symmetric /\ input_quant.strategy = TENSOR

is_fp8_w8a16(weight_quant, input_quant) ==
    IF weight_quant = None
    THEN FALSE
    ELSE IF weight_quant.type # FLOAT
         THEN FALSE
         ELSE LET is_symmetric_weight == weight_quant.symmetric
                  is_static_weight == ~weight_quant.dynamic
                  is_per_tensor_or_channel_weight ==
                      weight_quant.strategy \in {TENSOR, CHANNEL}
              IN  is_symmetric_weight /\ is_static_weight
                  /\ is_per_tensor_or_channel_weight

is_wNa16_group_channel(weight_quant, input_quant) ==
    IF weight_quant = None
    THEN Raised("AttributeError")
    ELSE LET input_quant_none == input_quant = None
             is_symmetric == weight_quant.symmetric
             is_channel_group == weight_quant.strategy = CHANNEL
                                 \/ weight_quant.strategy = GROUP
             is_static == ~weight_quant.dynamic
         IN  Returned(is_channel_group /\ input_quant_none /\ is_symmetric /\ is_static)


(***************************************************************************)
(* _get_scheme_from_parts: the classifier proper.  self is the config.     *)
(***************************************************************************)
\* mutant: no degradation, the FP8 w8a8 scheme whatever the device
Fp8W8A8Scheme_no_fallback(weight_quant, input_quant) ==
    Returned(CompressedTensorsW8A8Fp8(weight_quant.strategy, Some(~input_quant.dynamic)))

\* mutant: the input scheme is taken to be static whatever input_quant.dynamic is
Fp8W8A8Scheme_always_static(weight_quant, input_quant) ==
    IF check_scheme_supported(get_min_capability("CompressedTensorsW8A8Fp8"), FALSE).value
    THEN Returned(CompressedTensorsW8A8Fp8(weight_quant.strategy, Some(TRUE)))
    ELSE Returned(CompressedTensorsW8A16Fp8(weight_quant.strategy, Some(TRUE)))

\* lines 391-408: FP8 w8a8 is eligible; the advisory gate picks the variant
Fp8W8A8Scheme(weight_quant, input_quant) ==
    LET is_fp8_w8a8_supported ==
            check_scheme_supported(get_min_capability("CompressedTensorsW8A8Fp8"), FALSE)
    IN  IF is_fp8_w8a8_supported.raised # "None"
        THEN is_fp8_w8a8_supported
        ELSE IF is_fp8_w8a8_supported.value
             THEN Returned(CompressedTensorsW8A8Fp8(
                      weight_quant.strategy, Some(~input_quant.dynamic)))
             ELSE Returned(CompressedTensorsW8A16Fp8(
                      weight_quant.strategy, Some(~input_quant.dynamic)))

\* mutant: the INT8 predicates are tried before the FP8 ones
ActivationQuantSchemes_int8_first(self, weight_quant, input_quant) ==
    IF input_quant # None /\ is_static_tensor_w8a8(weight_quant, input_quant).value
    THEN IF ~Bound("CompressedTensorsW8A8Int8")
         THEN Raised("NameError")
         ELSE Returned(CompressedTensorsW8A8Int8(
                  weight_quant.strategy, Some(TRUE), input_quant.symmetric))
    ELSE IF input_quant # None /\ is_dynamic_token_w8a8(weight_quant, input_quant).value
    THEN IF ~Bound("CompressedTensorsW8A8Int8")
         THEN Raised("NameError")
         ELSE Returned(CompressedTensorsW8A8Int8(
                  weight_quant.strategy, Some(FALSE), input_quant.symmetric))
    ELSE IF is_fp8_w8a8(weight_quant, input_quant)
    THEN Fp8W8A8Scheme(weight_quant, input_quant)
    ELSE IF is_fp8_w8a16(weight_quant, input_quant)
    THEN IF ~VLLM_AVAILABLE
         THEN Raised("ImportError")
         ELSE Returned(CompressedTensorsW8A16Fp8(
                  weight_quant.strategy,
                  IF input_quant = None THEN None ELSE Some(~input_quant.dynamic)))
    ELSE IF input_quant = None
    THEN Raised("AttributeError")
    ELSE Raised("NotImplementedError")

ActivationQuantSchemes(self, weight_quant, input_quant) ==
    IF is_fp8_w8a8(weight_quant, input_quant)
    THEN Fp8W8A8Scheme(weight_quant, input_quant)
    ELSE IF is_fp8_w8a16(weight_quant, input_quant)
    THEN IF ~VLLM_AVAILABLE
         THEN Raised("ImportError")
         ELSE LET is_static_input_scheme ==
                      IF input_quant = None THEN None ELSE Some(~input_quant.dynamic)
              IN  Returned(CompressedTensorsW8A16Fp8(
                      weight_quant.strategy, is_static_input_scheme))
    ELSE LET static == is_static_tensor_w8a8(weight_quant, input_quant)
             token == is_dynamic_token_w8a8(weight_quant, input_quant)
         IN  IF static.raised # "None"
             THEN static
             ELSE IF static.value
             THEN IF ~Bound("CompressedTensorsW8A8Int8")
                  THEN Raised("NameError")
                  ELSE Returned(CompressedTensorsW8A8Int8(
                           weight_quant.strategy, Some(TRUE), input_quant.symmetric))
             ELSE IF token.raised # "None"
             THEN token
             ELSE IF token.value
             THEN IF ~Bound("CompressedTensorsW8A8Int8")
                  THEN Raised("NameError")
                  ELSE Returned(CompressedTensorsW8A8Int8(
                           weight_quant.strategy, Some(FALSE), input_quant.symmetric))
             ELSE Raised("NotImplementedError")

get_scheme_from_parts(self, weight_quant, input_quant) ==
    LET wNa16 == is_wNa16_group_channel(weight_quant, input_quant)
        rest == IF is_activation_quantization_format(self.quant_format)
                THEN ActivationQuantSchemes(self, weight_quant, input_quant)
                ELSE Raised("NotImplementedError")
    IN  IF wNa16.raised # "None"
        THEN wNa16
        ELSE IF ~wNa16.value
        THEN rest
        ELSE IF ~VLLM_AVAILABLE
        THEN Raised("ImportError")
        ELSE IF self.quant_format = marlin_24
        THEN IF ~Bound("W4A16SPARSE24_SUPPORTED_BITS")
             THEN Raised("NameError")
             ELSE IF weight_quant.num_bits \in W4A16SPARSE24_SUPPORTED_BITS
             THEN IF ~Bound("CompressedTensorsW4A16Sparse24")
                  THEN Raised("NameError")
                  ELSE Returned(CompressedTensorsW4A16Sparse24(
                           weight_quant.strategy, weight_quant.num_bits,
                           weight_quant.group_size))
             ELSE rest
        ELSE IF self.quant_format = pack_quantized
                /\ weight_quant.num_bits \in WNA16_SUPPORTED_BITS
        THEN Returned(CompressedTensorsWNA16(
                 weight_quant.num_bits, weight_quant.strategy,
                 weight_quant.group_size, weight_quant.actorder))
        ELSE rest

(***************************************************************************)
(* supports_cutlass_24: eligibility for the Cutlass 2:4 kernel.            *)
(***************************************************************************)
\* mutant: weight-only quantization is let through to the 2:4 kernel
supports_cutlass_24_weight_only(weight_quant, input_quant, sparsity_scheme) ==
    IF sparsity_scheme = None
    THEN Returned(FALSE)
    ELSE Returned(sparsity_scheme.sparsity_structure = TWO_FOUR
                  /\ sparsity_scheme.format \in {dense, sparse_24_bitmask}
                  /\ (input_quant = None
                      \/ (/\ weight_quant # None
                          /\ weight_quant.strategy \in {TENSOR, CHANNEL}
                          /\ input_quant.strategy \in {TENSOR, TOKEN}
                          /\ weight_quant.num_bits = 8
                          /\ input_quant.num_bits = 8)))

supports_cutlass_24(weight_quant, input_quant, sparsity_scheme) ==
    IF sparsity_scheme = None
    THEN Returned(FALSE)
    ELSE LET is_valid_sparsity_structure == sparsity_scheme.sparsity_structure = TWO_FOUR
             valid_compressors == {dense, sparse_24_bitmask}
             is_valid_sparsity == is_valid_sparsity_structure
                                  /\ sparsity_scheme.format \in valid_compressors
         IN  IF ~is_valid_sparsity
             THEN Returned(FALSE)
             ELSE IF weight_quant = None /\ input_quant = None
             THEN Returned(TRUE)
             ELSE IF weight_quant # None /\ input_quant = None
             THEN Returned(FALSE)
             ELSE IF weight_quant = None
             THEN Raised("AssertionError")
             ELSE IF weight_quant.strategy \notin {TENSOR, CHANNEL}
             THEN Returned(FALSE)
             ELSE IF input_quant.strategy \notin {TENSOR, TOKEN}
             THEN Returned(FALSE)
             ELSE Returned(weight_quant.num_bits = input_quant.num_bits
                           /\ input_quant.num_bits = 8)

(***************************************************************************)
(* Target matching (utils.find_matched_target, utils.should_ignore_layer). *)
(* A target is an exact layer name, a regex "re:.*<suffix>$" or a module   *)
(* class name.  A fused layer name resolves to its first constituent.      *)
(***************************************************************************)
endswith(name, suffix) ==
    Len(name) >= Len(suffix)
    /\ SubSeq(name, Len(name) - Len(suffix) + 1, Len(name)) = suffix

IsRegex(target) == Len(target) >= 3 /\ SubSeq(target, 1, 3) = "re:"

\* re.match of "re:.*<suffix>$" against name
RegexMatches(target, name) ==
    /\ IsRegex(target)
    /\ Len(target) >= 6
    /\ SubSeq(target, 4, 5) = ".*"
    /\ SubSeq(target, Len(target), Len(target)) = "$"
    /\ endswith(name, SubSeq(target, 6, Len(target) - 1))

\* the fused layer name with its fused suffix replaced by the first constituent
ResolveFused(layer_name, fused_mapping) ==
    LET fused == {f \in DOMAIN fused_mapping : endswith(layer_name, f)}
    IN  IF fused = {}
        THEN layer_name
        ELSE LET f == CHOOSE g \in fused : TRUE
             IN  SubSeq(layer_name, 1, Len(layer_name) - Len(f)) \o fused_mapping[f][1]

find_matched_target(layer_name, module_class, targets, fused_mapping) ==
    LET name == ResolveFused(layer_name, fused_mapping)
        exact == {t \in targets : t = name}
        regex == {t \in targets : RegexMatches(t, name)}
        class == {t \in targets : t = module_class}
    IN  IF exact # {} THEN Returned(CHOOSE t \in exact : TRUE)
        ELSE IF regex # {} THEN Returned(CHOOSE t \in regex : TRUE)
        ELSE IF class # {} THEN Returned(CHOOSE t \in class : TRUE)
        ELSE Raised("ValueError")

should_ignore_layer(layer_name, ignore, fused_mapping) ==
    LET name == ResolveFused(layer_name, fused_mapping)
    IN  \E t \in ignore : t = name \/ RegexMatches(t, name)


(***************************************************************************)
(* get_scheme(layer, layer_name): a record of what the call computed.      *)
(*   weight_quant, input_quant, sparsity_scheme: the matched arguments     *)
(*   cutlass: the outcome of supports_cutlass_24 (NotCalled if not reached)*)
(*   parts: the outcome of _get_scheme_from_parts (NotCalled if not called)*)
(*   gate: the outcome of the final _check_scheme_supported                *)
(*   result: the outcome of get_scheme itself                              *)
(***************************************************************************)
NotCalled == [called |-> FALSE]

GetSchemeFinish(weight_quant, input_quant, sparsity_scheme, cutlass, parts, selected) ==
    LET gate == IF selected.raised # "None"
                THEN NotCalled
                ELSE check_scheme_supported(get_min_capability(selected.value.cls), TRUE)
    IN  [weight_quant |-> weight_quant, input_quant |-> input_quant,
         sparsity_scheme |-> sparsity_scheme, cutlass |-> cutlass,
         parts |-> parts, gate |-> gate,
         result |-> IF selected.raised # "None" THEN selected
                    ELSE IF gate.raised # "None" THEN gate
                    ELSE selected]

GetSchemeSelect(self, weight_quant, input_quant, sparsity_scheme) ==
    LET cutlass == supports_cutlass_24(weight_quant, input_quant, sparsity_scheme)
        parts == get_scheme_from_parts(self, weight_quant, input_quant)
        early(outcome) ==
            [weight_quant |-> weight_quant, input_quant |-> input_quant,
             sparsity_scheme |-> sparsity_scheme, cutlass |-> cutlass,
             parts |-> NotCalled, gate |-> NotCalled, result |-> outcome]
    IN  IF cutlass.raised # "None"
        THEN early(cutlass)
        ELSE IF cutlass.value
        THEN IF ~VLLM_AVAILABLE
             THEN early(Raised("ImportError"))
             ELSE IF ~Bound("CompressedTensors24")
             THEN early(Raised("NameError"))
             ELSE GetSchemeFinish(weight_quant, input_quant, sparsity_scheme,
                      cutlass, NotCalled,
                      Returned(CompressedTensors24(
                          weight_quant # None \/ input_quant # None,
                          weight_quant, input_quant,
                          IF sparsity_scheme = None \/ sparsity_scheme.format = dense
                          THEN None ELSE self.config)))
        ELSE IF weight_quant = None
        THEN early(Returned(None))
        ELSE GetSchemeFinish(weight_quant, input_quant, sparsity_scheme,
                 cutlass, parts, parts)

\* mutant: a failed match against the sparsity targets is not suppressed
get_scheme_sparsity_match_fatal(self, lyr) ==
    LET quant_match == find_matched_target(lyr.name, lyr.class,
                           DOMAIN self.target_scheme_map, self.packed_modules_mapping)
        has_targets == DOMAIN self.target_scheme_map # {}
        scheme_dict == self.target_scheme_map[quant_match.value]
        weight_quant == IF has_targets THEN scheme_dict.weights ELSE None
        input_quant == IF has_targets THEN scheme_dict.input_activations ELSE None
        sparsity_targets == DOMAIN self.sparsity_scheme_map \ self.sparsity_ignore_list
        sparsity_match == find_matched_target(lyr.name, lyr.class,
                              sparsity_targets, self.packed_modules_mapping)
        failed(outcome) ==
            [weight_quant |-> None, input_quant |-> None, sparsity_scheme |-> None,
             cutlass |-> NotCalled, parts |-> NotCalled, gate |-> NotCalled,
             result |-> outcome]
    IN  IF has_targets /\ quant_match.raised # "None"
        THEN failed(quant_match)
        ELSE IF sparsity_match.raised # "None"
        THEN failed(sparsity_match)
        ELSE GetSchemeSelect(self, weight_quant, input_quant,
                 self.sparsity_scheme_map[sparsity_match.value])

get_scheme(self, lyr) ==
    LET quant_match == find_matched_target(lyr.name, lyr.class,
                           DOMAIN self.target_scheme_map, self.packed_modules_mapping)
        has_targets == DOMAIN self.target_scheme_map # {}
        scheme_dict == self.target_scheme_map[quant_match.value]
        weight_quant == IF has_targets THEN scheme_dict.weights ELSE None
        input_quant == IF has_targets THEN scheme_dict.input_activations ELSE None
        sparsity_targets == DOMAIN self.sparsity_scheme_map \ self.sparsity_ignore_list
        sparsity_match == find_matched_target(lyr.name, lyr.class,
                              sparsity_targets, self.packed_modules_mapping)
        sparsity_scheme == IF sparsity_match.raised = "ValueError"
                           THEN None
                           ELSE self.sparsity_scheme_map[sparsity_match.value]
    IN  IF has_targets /\ quant_match.raised # "None"
        THEN [weight_quant |-> None, input_quant |-> None, sparsity_scheme |-> None,
              cutlass |-> NotCalled, parts |-> NotCalled, gate |-> NotCalled,
              result |-> quant_match]
        ELSE GetSchemeSelect(self, weight_quant, input_quant, sparsity_scheme)

(***************************************************************************)
(* get_quant_method(layer, prefix): the method returned (or the exception  *)
(* raised) and the layer afterwards.                                       *)
(***************************************************************************)
Unset == [unset |-> TRUE]

\* a quantize-method object, by its class
Method(cls) == [cls |-> cls]

get_quant_method(self, lyr) ==
    LET trace == get_scheme(self, lyr)
        scheme == trace.result
        skip(outcome) == [result |-> outcome, layer |-> lyr, get_scheme |-> NotCalled]
    IN  IF should_ignore_layer(lyr.name, self.ignore, self.packed_modules_mapping)
        THEN skip(Returned(Method("UnquantizedLinearMethod")))
        ELSE IF lyr.base = "LinearBase"
        THEN IF scheme.raised # "None"
             THEN [result |-> scheme, layer |-> lyr, get_scheme |-> trace]
             ELSE IF scheme.value = None
             THEN [result |-> Returned(Method("UnquantizedLinearMethod")), layer |-> lyr,
                   get_scheme |-> trace]
             ELSE [result |-> Returned(Method("CompressedTensorsLinearMethod")),
                   layer |-> [lyr EXCEPT !.scheme = scheme.value],
                   get_scheme |-> trace]
        ELSE IF lyr.base = "FusedMoE"
        THEN skip(Returned(Method("CompressedTensorsMoEMethod")))
        ELSE skip(Returned(None))


(***************************************************************************)
(* CompressedTensorsLinearMethod.create_weights / apply on a layer.        *)
(* Reading layer.scheme of a layer that has no such attribute raises       *)
(* AttributeError (torch.nn.Module.__getattr__), and so does calling a     *)
(* method of None.  The scheme's own methods belong to the schemes         *)
(* package: a call to one is recorded in `delegated`, not carried out.     *)
(***************************************************************************)
\* the forward result of scheme.apply_weights, as an opaque value
Tensor == [tensor |-> TRUE]

\* one call handed to the attached scheme
Delegation(scheme, method) == [scheme |-> scheme, method |-> method]

create_weights(lyr) ==
    IF lyr.scheme = Unset \/ lyr.scheme = None
    THEN [result |-> Raised("AttributeError"), layer |-> lyr, delegated |-> <<>>]
    ELSE [result |-> Returned(None), layer |-> lyr,
          delegated |-> <<Delegation(lyr.scheme, "create_weights")>>]

apply(lyr) ==
    IF lyr.scheme = Unset
    THEN [result |-> Raised("AttributeError"), layer |-> lyr, delegated |-> <<>>]
    ELSE LET scheme == lyr.scheme
         IN  IF scheme = None
             THEN [result |-> Raised("ValueError"), layer |-> lyr, delegated |-> <<>>]
             ELSE [result |-> Returned(Tensor), layer |-> lyr,
                   delegated |-> <<Delegation(scheme, "apply_weights")>>]


(***************************************************************************)
(* _quantization_scheme_map_from_config(config): config is the raw         *)
(* quantization_config mapping.  config_groups, a dict, is the sequence of *)
(* its values in insertion order; a group is a record of targets (a list), *)
(* weights and input_activations (raw mappings, or None when absent).      *)
(***************************************************************************)
\* QuantizationArgs.model_validate(raw): None is rejected; a mapping becomes
\* a QuantizationArgs whose absent optional fields default to None.
model_validate(raw) ==
    IF raw = None
    THEN Raised("ValidationError")
    ELSE Returned([num_bits |-> raw.num_bits, type |-> raw.type,
                   strategy |-> raw.strategy, symmetric |-> raw.symmetric,
                   dynamic |-> raw.dynamic,
                   group_size |-> IF "group_size" \in DOMAIN raw
                                  THEN Some(raw.group_size) ELSE None,
                   actorder |-> IF "actorder" \in DOMAIN raw
                                THEN Some(raw.actorder) ELSE None])

\* lines 208-230: the entry built for one target of the group quant_config
SchemeEntry(quant_format, quant_config) ==
    LET weights == model_validate(quant_config.weights)
        input_activations == quant_config.input_activations
    IN  IF weights.raised # "None"
        THEN weights
        ELSE IF ~is_activation_quantization_format(quant_format)
        THEN Returned([weights |-> weights.value, input_activations |-> None])
        ELSE IF input_activations = None
        THEN IF weights.value.type # FLOAT
             THEN Raised("AssertionError")
             ELSE Returned([weights |-> weights.value, input_activations |-> None])
        ELSE LET validated == model_validate(input_activations)
             IN  IF validated.raised # "None"
                 THEN validated
                 ELSE Returned([weights |-> weights.value,
                                input_activations |-> validated.value])

\* target_scheme_map[target] = entry
SetItem(target_scheme_map, target, entry) ==
    [t \in DOMAIN target_scheme_map \cup {target} |->
        IF t = target THEN entry ELSE target_scheme_map[t]]

\* mutant: a target already in the map keeps its first entry
targets_loop_first_wins(target_scheme_map, quant_format, quant_config) ==
    LET entry == SchemeEntry(quant_format, quant_config)
        fresh == {quant_config.targets[i] : i \in 1..Len(quant_config.targets)}
                     \ DOMAIN target_scheme_map
    IN  IF quant_config.targets = <<>>
        THEN Returned(target_scheme_map)
        ELSE IF entry.raised # "None"
        THEN entry
        ELSE Returned([t \in DOMAIN target_scheme_map \cup fresh |->
                          IF t \in fresh THEN entry.value ELSE target_scheme_map[t]])

\* lines 206-230: `for target in targets`, from the i-th target on
RECURSIVE targets_from(_, _, _, _)
targets_from(target_scheme_map, quant_format, quant_config, i) ==
    IF i > Len(quant_config.targets)
    THEN Returned(target_scheme_map)
    ELSE LET entry == SchemeEntry(quant_format, quant_config)
         IN  IF entry.raised # "None"
             THEN entry
             ELSE targets_from(SetItem(target_scheme_map, quant_config.targets[i],
                                       entry.value),
                               quant_format, quant_config, i + 1)

targets_loop(target_scheme_map, quant_format, quant_config) ==
    targets_from(target_scheme_map, quant_format, quant_config, 1)

\* lines 205-230: `for _, quant_config in config_groups.items()`, from the
\* g-th group on
RECURSIVE config_groups_from(_, _, _, _)
config_groups_from(target_scheme_map, quant_format, config_groups, g) ==
    IF g > Len(config_groups)
    THEN Returned(target_scheme_map)
    ELSE LET done == targets_loop(target_scheme_map, quant_format, config_groups[g])
         IN  IF done.raised # "None"
             THEN done
             ELSE config_groups_from(done.value, quant_format, config_groups, g + 1)

quantization_scheme_map_from_config(cfg) ==
    LET target_scheme_map == <<>>
        quant_format == cfg.format
        config_groups == cfg.config_groups
    IN  config_groups_from(target_scheme_map, quant_format, config_groups, 1)


(***************************************************************************)
(* get_cache_scale(name): str.endswith, the `in` substring test and        *)
(* str.replace (every non-overlapping occurrence, left to right).          *)
(***************************************************************************)
startswith_at(name, i, sub) ==
    i + Len(sub) - 1 <= Len(name) /\ SubSeq(name, i, i + Len(sub) - 1) = sub

contains(name, sub) == \E i \in 1..(Len(name) + 1) : startswith_at(name, i, sub)

RECURSIVE replace_from(_, _, _, _)
replace_from(name, i, old, new) ==
    IF i > Len(name)
    THEN ""
    ELSE IF startswith_at(name, i, old)
    THEN new \o replace_from(name, i + Len(old), old, new)
    ELSE SubSeq(name, i, i) \o replace_from(name, i + 1, old, new)

replace(name, old, new) == replace_from(name, 1, old, new)

get_cache_scale(name) ==
    IF endswith(name, ".output_scale") /\ contains(name, ".k_proj")
    THEN Returned(Some(replace(name, ".k_proj.output_scale", ".attn.k_scale")))
    ELSE IF endswith(name, ".output_scale") /\ contains(name, ".v_proj")
    THEN Returned(Some(replace(name, ".v_proj.output_scale", ".attn.v_scale")))
    ELSE Returned(None)

(***************************************************************************)
(* The inputs: QuantizationArgs, sparsity configs, configs, layers and     *)
(* devices the operations are applied to.                                  *)
(***************************************************************************)
QuantizationArgs(num_bits, type, strategy, symmetric, dynamic, group_size, actorder) ==
    [num_bits |-> num_bits, type |-> type, strategy |-> strategy,
     symmetric |-> symmetric, dynamic |-> dynamic,
     group_size |-> group_size, actorder |-> actorder]

NumBits == {4, 8}

GroupSizes == {32, 128}

WeightArgs ==
    { QuantizationArgs(b, t, s, sym, dyn, None, None) :
        b \in NumBits, t \in {FLOAT, INT}, s \in {TENSOR, CHANNEL, TOKEN},
        sym \in BOOLEAN, dyn \in BOOLEAN }
    \cup
    { QuantizationArgs(b, t, GROUP, sym, dyn, Some(g), None) :
        b \in NumBits, t \in {FLOAT, INT}, sym \in BOOLEAN, dyn \in BOOLEAN,
        g \in GroupSizes }
    \cup
    { QuantizationArgs(b, t, GROUP, sym, dyn, Some(128), Some("group")) :
        b \in NumBits, t \in {FLOAT, INT}, sym \in BOOLEAN, dyn \in BOOLEAN }

InputArgs ==
    { QuantizationArgs(b, t, s, sym, dyn, None, None) :
        b \in NumBits, t \in {FLOAT, INT}, s \in {TENSOR, CHANNEL, TOKEN},
        sym \in BOOLEAN, dyn \in BOOLEAN }
    \cup
    { QuantizationArgs(b, t, GROUP, sym, dyn, Some(128), None) :
        b \in NumBits, t \in {FLOAT, INT}, sym \in BOOLEAN, dyn \in BOOLEAN }

SparsityCompressionConfig(format, sparsity_structure) ==
    [format |-> format, sparsity_structure |-> sparsity_structure]

SparsityConfigs ==
    { SparsityCompressionConfig(dense, TWO_FOUR),
      SparsityCompressionConfig(sparse_24_bitmask, TWO_FOUR),
      SparsityCompressionConfig(sparse_bitmask, TWO_FOUR),
      SparsityCompressionConfig(dense, UNSTRUCTURED) }

QuantFormats == {dense, pack_quantized, marlin_24, float_quantized}

DeviceCapabilities == {<<7, 5>>, <<8, 0>>, <<8, 9>>, <<9, 0>>}

\* the original config mapping kept in self.config, as an opaque value
RawConfig == [raw |-> TRUE]

PackedModulesMapping ==
    [f \in {"qkv_proj"} |-> <<"q_proj", "k_proj", "v_proj">>]

CompressedTensorsConfig(target_scheme_map, ignore, quant_format, sparsity_scheme_map, sparsity_ignore_list) ==
    [target_scheme_map |-> target_scheme_map, ignore |-> ignore,
     quant_format |-> quant_format, sparsity_scheme_map |-> sparsity_scheme_map,
     sparsity_ignore_list |-> sparsity_ignore_list, config |-> RawConfig,
     packed_modules_mapping |-> PackedModulesMapping]

\* a layer before get_quant_method: no scheme attribute yet
Layer(name, class, base) ==
    [name |-> name, class |-> class, base |-> base, scheme |-> Unset]

Layers ==
    { Layer("model.layers.0.self_attn.k_proj", "Linear", "LinearBase"),
      Layer("model.layers.0.self_attn.qkv_proj", "Linear", "LinearBase"),
      Layer("model.layers.0.mlp.experts", "FusedMoE", "FusedMoE"),
      Layer("model.norm", "RMSNorm", "Module") }

SchemeDict(weights, input_activations) ==
    [weights |-> weights, input_activations |-> input_activations]

\* a call not yet made: the function and its arguments besides self and layer
Pending(fn, args) == [fn |-> fn, state |-> "pending", args |-> args]

\* One target ("Linear") carrying any weight/activation arguments, any
\* sparsity config and any format, for a linear layer it matches.
InitClassify ==
    /\ VLLM_AVAILABLE \in BOOLEAN
    /\ device_capability \in DeviceCapabilities
    /\ call = Pending("get_quant_method", <<>>)
    /\ layer = Layer("model.layers.0.self_attn.k_proj", "Linear", "LinearBase")
    /\ \E fmt \in QuantFormats :
       \E tsm \in {<<>>} \cup { [t \in {"Linear"} |-> SchemeDict(w, a)] :
                                 w \in WeightArgs, a \in InputArgs \cup {None} } :
       \E ssm \in {<<>>} \cup { [t \in {"Linear"} |-> sp] : sp \in SparsityConfigs } :
          config = CompressedTensorsConfig(tsm, {}, fmt, ssm, {})

\* Several targets (exact name, regex, class name), each with its own
\* arguments, sparsity targets and ignore lists, for every kind of layer.
FP8Static == QuantizationArgs(8, FLOAT, TENSOR, TRUE, FALSE, None, None)

Int8Token == QuantizationArgs(8, INT, TOKEN, TRUE, TRUE, None, None)

Int8Tensor == QuantizationArgs(8, INT, TENSOR, TRUE, FALSE, None, None)

Int4Group == QuantizationArgs(4, INT, GROUP, TRUE, FALSE, Some(128), None)

QuantTargets ==
    {"model.layers.0.self_attn.k_proj", "re:.*k_proj$", "re:.*q_proj$", "Linear"}

TargetScheme(target) ==
    CASE target = "model.layers.0.self_attn.k_proj" -> SchemeDict(FP8Static, FP8Static)
      [] target = "re:.*k_proj$" -> SchemeDict(Int8Tensor, Int8Token)
      [] target = "re:.*q_proj$" -> SchemeDict(FP8Static, None)
      [] target = "Linear" -> SchemeDict(Int4Group, None)

SparsityTargets == {"re:.*k_proj$", "Linear"}

InitTargets ==
    /\ VLLM_AVAILABLE \in BOOLEAN
    /\ device_capability \in DeviceCapabilities
    /\ call = Pending("get_quant_method", <<>>)
    /\ layer \in Layers
    /\ \E fmt \in {int_quantized, pack_quantized} :
       \E qt \in SUBSET QuantTargets :
       \E st \in SUBSET SparsityTargets :
       \E sil \in SUBSET {"Linear"} :
       \E ign \in {{}, {"re:.*k_proj$"}} :
          config = CompressedTensorsConfig(
                       [t \in qt |-> TargetScheme(t)], ign, fmt,
                       [t \in st |-> SparsityCompressionConfig(dense, TWO_FOUR)], sil)

\* A config with no targets at all (a model without quantization groups).
EmptyConfig == CompressedTensorsConfig(<<>>, {}, dense, <<>>, {})

MinCapabilities == {get_min_capability(c) : c \in
    {"CompressedTensorsW8A8Fp8", "CompressedTensorsW8A16Fp8",
     "CompressedTensorsW8A8Int8", "CompressedTensors24"}}

\* the newest device generation tried (major versions 7..MaxMajor)
MaxMajor == 9

\* The capability gate called on its own, on any device.
InitGate ==
    /\ VLLM_AVAILABLE \in BOOLEAN
    /\ device_capability \in {<<major, minor>> : major \in 7..MaxMajor, minor \in 0..9}
    /\ layer = Layer("model.norm", "RMSNorm", "Module")
    /\ config = EmptyConfig
    /\ \E min_capability \in MinCapabilities : \E error \in BOOLEAN :
          call = Pending("_check_scheme_supported",
                         [min_capability |-> min_capability, error |-> error])

\* Parameter names: up to MaxChunks pieces of dotted names, in any order.
MaxChunks == 4

NameChunks == {"model", ".self_attn", ".k_proj", ".v_proj", ".output_scale"}

RECURSIVE NamesOf(_)
NamesOf(n) ==
    IF n = 0
    THEN {""}
    ELSE NamesOf(n - 1) \cup {prefix \o c : prefix \in NamesOf(n - 1), c \in NameChunks}

ParamNames == NamesOf(MaxChunks)

InitCacheScale ==
    /\ VLLM_AVAILABLE \in BOOLEAN
    /\ device_capability = <<8, 0>>
    /\ layer = Layer("model.norm", "RMSNorm", "Module")
    /\ config = EmptyConfig
    /\ \E name \in ParamNames : call = Pending("get_cache_scale", [name |-> name])

\* the schemes a layer can carry when its linear method is used
AttachedSchemes ==
    { CompressedTensorsW8A8Fp8(TENSOR, Some(TRUE)),
      CompressedTensorsW8A16Fp8(CHANNEL, None),
      CompressedTensorsWNA16(4, GROUP, Some(128), None) }

\* The linear method (from get_linear_method or get_quant_method) used on a
\* layer: one without a scheme attribute, one whose scheme is None, or one
\* with a scheme attached.
InitLinearMethod ==
    /\ VLLM_AVAILABLE \in BOOLEAN
    /\ device_capability \in DeviceCapabilities
    /\ config = EmptyConfig
    /\ \E lyr \in Layers : \E scheme \in {Unset, None} \cup AttachedSchemes :
          layer = [lyr EXCEPT !.scheme = scheme]
    /\ call \in {Pending("create_weights", <<>>), Pending("apply", <<>>)}

\* raw weights / input_activations mappings of a config group
RawFP8 ==
    [num_bits |-> 8, type |-> FLOAT, strategy |-> TENSOR, symmetric |-> TRUE,
     dynamic |-> FALSE]

RawInt8 ==
    [num_bits |-> 8, type |-> INT, strategy |-> CHANNEL, symmetric |-> TRUE,
     dynamic |-> FALSE]

RawInt8Token ==
    [num_bits |-> 8, type |-> INT, strategy |-> TOKEN, symmetric |-> TRUE,
     dynamic |-> TRUE]

RawInt4Group ==
    [num_bits |-> 4, type |-> INT, strategy |-> GROUP, symmetric |-> TRUE,
     dynamic |-> FALSE, group_size |-> 128]

\* the most config groups a raw config has
MaxGroups == 2

ConfigGroups ==
    [targets : {<<>>, <<"Linear">>, <<"re:.*k_proj$">>, <<"re:.*k_proj$", "Linear">>},
     weights : {None, RawFP8, RawInt8, RawInt4Group},
     input_activations : {None, RawFP8, RawInt8Token}]

RECURSIVE GroupSeqs(_)
GroupSeqs(n) ==
    IF n = 0
    THEN {<<>>}
    ELSE GroupSeqs(n - 1)
         \cup {Append(groups, g) : groups \in {q \in GroupSeqs(n - 1) : Len(q) = n - 1},
                                   g \in ConfigGroups}

\* A raw quantization_config handed to the scheme-map construction.
InitFromConfig ==
    /\ VLLM_AVAILABLE \in BOOLEAN
    /\ device_capability = <<8, 0>>
    /\ layer = Layer("model.norm", "RMSNorm", "Module")
    /\ config = EmptyConfig
    /\ \E fmt \in {pack_quantized, float_quantized, int_quantized} :
       \E groups \in GroupSeqs(MaxGroups) :
          call = Pending("_quantization_scheme_map_from_config",
                         [config |-> [format |-> fmt, config_groups |-> groups]])

Init ==
    \/ InitFromConfig
    \/ InitClassify
    \/ InitTargets
    \/ InitGate
    \/ InitCacheScale
    \/ InitLinearMethod

GetQuantMethod ==
    /\ call = Pending("get_quant_method", <<>>)
    /\ LET r == get_quant_method(config, layer)
       IN  /\ layer' = r.layer
           /\ call' = [fn |-> "get_quant_method", state |-> "done", args |-> <<>>,
                       result |-> r.result, get_scheme |-> r.get_scheme]
    /\ UNCHANGED <<VLLM_AVAILABLE, device_capability, config>>

CheckSchemeSupported ==
    /\ call.fn = "_check_scheme_supported"
    /\ call.state = "pending"
    /\ call' = [call EXCEPT !.state = "done"] @@
               [result |-> check_scheme_supported(call.args.min_capability,
                                                  call.args.error)]
    /\ UNCHANGED <<VLLM_AVAILABLE, device_capability, config, layer>>

GetCacheScale ==
    /\ call.fn = "get_cache_scale"
    /\ call.state = "pending"
    /\ call' = [call EXCEPT !.state = "done"] @@
               [result |-> get_cache_scale(call.args.name)]
    /\ UNCHANGED <<VLLM_AVAILABLE, device_capability, config, layer>>

CreateWeights ==
    /\ call = Pending("create_weights", <<>>)
    /\ LET r == create_weights(layer)
       IN  /\ layer' = r.layer
           /\ call' = [fn |-> "create_weights", state |-> "done", args |-> <<>>,
                       result |-> r.result, delegated |-> r.delegated]
    /\ UNCHANGED <<VLLM_AVAILABLE, device_capability, config>>

Apply ==
    /\ call = Pending("apply", <<>>)
    /\ LET r == apply(layer)
       IN  /\ layer' = r.layer
           /\ call' = [fn |-> "apply", state |-> "done", args |-> <<>>,
                       result |-> r.result, delegated |-> r.delegated]
    /\ UNCHANGED <<VLLM_AVAILABLE, device_capability, config>>

QuantizationSchemeMapFromConfig ==
    /\ call.fn = "_quantization_scheme_map_from_config"
    /\ call.state = "pending"
    /\ call' = [call EXCEPT !.state = "done"] @@
               [result |-> quantization_scheme_map_from_config(call.args.config)]
    /\ UNCHANGED <<VLLM_AVAILABLE, device_capability, config, layer>>

Next ==
    \/ QuantizationSchemeMapFromConfig
    \/ GetQuantMethod
    \/ CheckSchemeSupported
    \/ GetCacheScale
    \/ CreateWeights
    \/ Apply

Spec == Init /\ [][Next]_vars

(***************************************************************************)
(* Properties.                                                             *)
(***************************************************************************)
Called == call.fn = "get_quant_method" /\ call.state = "done"

LinearMethod == Returned(Method("CompressedTensorsLinearMethod"))

\* C1: after get_quant_method (returned or raised) the layer has either no
\* scheme attached, and then the method returned is not a
\* CompressedTensorsLinearMethod, or one scheme attached by a call that
\* returned a CompressedTensorsLinearMethod, whose minimum capability the
\* device meets.
C1_SchemeAttachedIffSupported ==
    Called =>
        \/ /\ layer.scheme = Unset
           /\ call.result # LinearMethod
        \/ /\ layer.scheme # Unset
           /\ layer.scheme # None
           /\ call.result = LinearMethod
           /\ call.get_scheme.result = Returned(layer.scheme)
           /\ to_int(device_capability).raised = "None"
           /\ get_min_capability(layer.scheme.cls) <= to_int(device_capability).value

\* the degraded FP8 scheme attached on a device that lacks the FP8 w8a8 minimum
C1_Witness ==
    /\ Called
    /\ layer.scheme # Unset
    /\ layer.scheme.cls = "CompressedTensorsW8A16Fp8"
    /\ to_int(device_capability).value < get_min_capability("CompressedTensorsW8A8Fp8")
    /\ call.result = LinearMethod


Trace == call.get_scheme

\* get_scheme ran (the layer is linear and not ignored)
SchemeCalled == Called /\ call.get_scheme # NotCalled

\* get_scheme reached _get_scheme_from_parts
PartsCalled == SchemeCalled /\ Trace.parts # NotCalled

Capability == device_capability[1] * 10 + device_capability[2]

IsScheme(outcome, classes) ==
    outcome.raised = "None" /\ outcome.value # None /\ outcome.value.cls \in classes

\* the case of C2: weight-only quantization matched together with 2:4 sparsity
C2_Case ==
    /\ SchemeCalled
    /\ Trace.weight_quant # None
    /\ Trace.input_quant = None
    /\ Trace.sparsity_scheme # None
    /\ Trace.sparsity_scheme.sparsity_structure = TWO_FOUR

\* C2 as claimed: with weight_quant present, input_quant None and 2:4
\* sparsity, get_scheme raises and returns no scheme.
C2_Original == C2_Case => Trace.result.raised # "None"

\* C2 amended: with weight_quant present, input_quant None and 2:4 sparsity,
\* supports_cutlass_24 is False and the 2:4-sparse scheme is never selected;
\* get_scheme hands (weight_quant, None) to _get_scheme_from_parts and either
\* raises that classifier's error, or returns its scheme (a WNA16 or a
\* W8A16Fp8) if the device passes the capability gate and raises the
\* capability error if not.
C2_WeightOnlySparseFallsThrough ==
    C2_Case =>
        /\ Trace.cutlass = Returned(FALSE)
        /\ Trace.parts # NotCalled
        /\ Trace.parts.raised # "None" => Trace.result = Trace.parts
        /\ Trace.parts.raised = "None" =>
              /\ IsScheme(Trace.parts, {"CompressedTensorsWNA16", "CompressedTensorsW8A16Fp8"})
              /\ Trace.result = IF Capability >= get_min_capability(Trace.parts.value.cls)
                                THEN Trace.parts
                                ELSE Raised("RuntimeError")

\* a weight-only layer with 2:4 sparsity that gets a scheme
C2_Witness ==
    /\ C2_Case
    /\ IsScheme(Trace.result, {"CompressedTensorsWNA16"})
    /\ layer.scheme = Trace.result.value

\* the case of C3: FP8 w8a8 eligible, not 2:4 eligible, device below the minimum
C3_Case ==
    /\ SchemeCalled
    /\ Trace.cutlass = Returned(FALSE)
    /\ is_activation_quantization_format(config.quant_format)
    /\ is_fp8_w8a8(Trace.weight_quant, Trace.input_quant)
    /\ Capability < get_min_capability("CompressedTensorsW8A8Fp8")

\* C3 as claimed: in that case get_scheme returns a W8A16Fp8 scheme with the
\* weight's strategy and raises nothing.
C3_Original ==
    C3_Case =>
        /\ IsScheme(Trace.result, {"CompressedTensorsW8A16Fp8"})
        /\ Trace.result.value.strategy = Trace.weight_quant.strategy

\* C3 amended: in that case _get_scheme_from_parts raises nothing and returns
\* a W8A16Fp8 scheme with the weight's strategy, with or without vllm;
\* get_scheme returns it when the device meets the W8A16Fp8 minimum and
\* raises the capability error (RuntimeError) when it does not.
C3_Fp8DegradesThenGate ==
    C3_Case =>
        /\ IsScheme(Trace.parts, {"CompressedTensorsW8A16Fp8"})
        /\ Trace.parts.value.strategy = Trace.weight_quant.strategy
        /\ Trace.result = IF Capability >= get_min_capability("CompressedTensorsW8A16Fp8")
                          THEN Trace.parts
                          ELSE Raised("RuntimeError")

\* the degraded scheme returned without vllm installed
C3_Witness ==
    /\ C3_Case
    /\ ~VLLM_AVAILABLE
    /\ IsScheme(Trace.result, {"CompressedTensorsW8A16Fp8"})

\* none of the classifier's branches applies to (weight_quant, input_quant)
NoBranchApplies(self, weight_quant, input_quant) ==
    LET weight_only ==
            /\ input_quant = None
            /\ weight_quant.strategy \in {CHANNEL, GROUP}
            /\ weight_quant.symmetric
            /\ ~weight_quant.dynamic
            /\ \/ self.quant_format = marlin_24
                  /\ weight_quant.num_bits \in W4A16SPARSE24_SUPPORTED_BITS
               \/ self.quant_format = pack_quantized
                  /\ weight_quant.num_bits \in WNA16_SUPPORTED_BITS
        int8 ==
            /\ input_quant # None
            /\ weight_quant.num_bits = 8
            /\ input_quant.num_bits = 8
            /\ weight_quant.strategy \in {TENSOR, CHANNEL}
            /\ weight_quant.symmetric
            /\ ~weight_quant.dynamic
            /\ \/ input_quant.strategy = TENSOR /\ ~input_quant.dynamic
               \/ input_quant.strategy = TOKEN /\ input_quant.dynamic
        activation ==
            /\ is_activation_quantization_format(self.quant_format)
            /\ \/ is_fp8_w8a8(weight_quant, input_quant)
               \/ is_fp8_w8a16(weight_quant, input_quant)
               \/ int8
    IN  ~weight_only /\ ~activation

\* C4 as claimed: when no branch applies, _get_scheme_from_parts raises
\* NotImplementedError and no other error.
C4_Original ==
    PartsCalled /\ NoBranchApplies(config, Trace.weight_quant, Trace.input_quant)
        => Trace.parts = Raised("NotImplementedError")

\* static per-tensor symmetric 8-bit weights of the given type
IsTensorWeight(weight_quant, type) ==
    /\ weight_quant.type = type
    /\ weight_quant.num_bits = 8
    /\ weight_quant.strategy = TENSOR
    /\ weight_quant.symmetric
    /\ ~weight_quant.dynamic

\* the case of C5: FP8 per-tensor weights, the activation alike but for dynamic
C5_Case ==
    /\ PartsCalled
    /\ IsTensorWeight(Trace.weight_quant, FLOAT)
    /\ Trace.input_quant # None
    /\ Trace.input_quant.type = FLOAT
    /\ Trace.input_quant.num_bits = 8
    /\ Trace.input_quant.strategy = TENSOR
    /\ Trace.input_quant.symmetric

\* C5 as claimed: the classifier then selects CompressedTensorsW8A8Fp8 with
\* is_static_input_scheme = not input_quant.dynamic and the weight's strategy.
C5_Original ==
    C5_Case =>
        Trace.parts = Returned(CompressedTensorsW8A8Fp8(
                          Trace.weight_quant.strategy, Some(~Trace.input_quant.dynamic)))

\* C5 amended: under an activation-quantizing format the classifier selects,
\* with is_static_input_scheme = not input_quant.dynamic and the weight's
\* strategy, CompressedTensorsW8A8Fp8 when the device meets that scheme's
\* minimum capability and CompressedTensorsW8A16Fp8 when it does not.
C5_Fp8StaticOrDynamic ==
    C5_Case /\ is_activation_quantization_format(config.quant_format) =>
        Trace.parts =
            IF Capability >= get_min_capability("CompressedTensorsW8A8Fp8")
            THEN Returned(CompressedTensorsW8A8Fp8(
                     Trace.weight_quant.strategy, Some(~Trace.input_quant.dynamic)))
            ELSE Returned(CompressedTensorsW8A16Fp8(
                     Trace.weight_quant.strategy, Some(~Trace.input_quant.dynamic)))

\* the dynamic FP8 w8a8 scheme selected and attached
C5_Witness ==
    /\ C5_Case
    /\ Trace.input_quant.dynamic
    /\ Trace.parts = Returned(CompressedTensorsW8A8Fp8(TENSOR, Some(FALSE)))
    /\ layer.scheme = Trace.parts.value

\* C6 as claimed: INT8 per-tensor static symmetric weights with an 8-bit
\* dynamic per-token activation get the dynamic per-token INT8 scheme.
C6_Original ==
    /\ PartsCalled
    /\ IsTensorWeight(Trace.weight_quant, INT)
    /\ Trace.input_quant # None
    /\ Trace.input_quant.num_bits = 8
    /\ Trace.input_quant.dynamic
    /\ Trace.input_quant.strategy = TOKEN
    => Trace.parts = Returned(CompressedTensorsW8A8Int8(
                         Trace.weight_quant.strategy, Some(FALSE),
                         Trace.input_quant.symmetric))

\* C7 as claimed: symmetric static GROUP weights without input_quant get a
\* weight-only N-bit scheme with the weight's group_size, num_bits, strategy.
C7_Original ==
    /\ PartsCalled
    /\ Trace.weight_quant.strategy = GROUP
    /\ Trace.weight_quant.symmetric
    /\ ~Trace.weight_quant.dynamic
    /\ Trace.input_quant = None
    => /\ IsScheme(Trace.parts, {"CompressedTensorsWNA16",
                                 "CompressedTensorsW4A16Sparse24"})
       /\ Trace.parts.value.group_size = Trace.weight_quant.group_size
       /\ Trace.parts.value.num_bits = Trace.weight_quant.num_bits
       /\ Trace.parts.value.strategy = Trace.weight_quant.strategy

\* 2:4 eligibility as the claim states it
Eligible24(weight_quant, input_quant, sparsity_scheme) ==
    /\ sparsity_scheme # None
    /\ sparsity_scheme.sparsity_structure = TWO_FOUR
    /\ sparsity_scheme.format \in {dense, sparse_24_bitmask}
    /\ \/ weight_quant = None /\ input_quant = None
       \/ /\ weight_quant # None
          /\ input_quant # None
          /\ weight_quant.num_bits = 8
          /\ input_quant.num_bits = 8
          /\ weight_quant.strategy \in {TENSOR, CHANNEL}
          /\ input_quant.strategy \in {TENSOR, TOKEN}

\* C8 as claimed: get_scheme selects the 2:4-sparse scheme exactly in the
\* eligible cases, quantized iff quantization arguments are present, with
\* model_compression_config None exactly for the dense format.
C8_Original ==
    SchemeCalled /\ Trace.cutlass # NotCalled =>
        IF Eligible24(Trace.weight_quant, Trace.input_quant, Trace.sparsity_scheme)
        THEN /\ IsScheme(Trace.result, {"CompressedTensors24"})
             /\ Trace.result.value.quantized = (Trace.weight_quant # None)
             /\ (Trace.result.value.model_compression_config = None)
                    = (Trace.sparsity_scheme.format = dense)
        ELSE ~IsScheme(Trace.result, {"CompressedTensors24"})

GateCalled == call.fn = "_check_scheme_supported" /\ call.state = "done"

\* C9: the gate compares major*10+minor with min_capability: in fatal mode
\* it raises RuntimeError exactly when the device is below the minimum and
\* returns True otherwise, in advisory mode it returns the comparison and
\* never raises (min 89: (8,0) fails, (8,9) passes); and every scheme
\* get_scheme returns has passed the fatal gate.
C9_CapabilityGate ==
    /\ GateCalled =>
          call.result = IF call.args.error /\ Capability < call.args.min_capability
                        THEN Raised("RuntimeError")
                        ELSE Returned(Capability >= call.args.min_capability)
    /\ GateCalled /\ call.args.min_capability = 89 /\ call.args.error =>
          /\ device_capability = <<8, 0>> => call.result = Raised("RuntimeError")
          /\ device_capability = <<8, 9>> => call.result = Returned(TRUE)
    /\ SchemeCalled /\ Trace.result.raised = "None" /\ Trace.result.value # None =>
          /\ Trace.gate = Returned(TRUE)
          /\ Capability >= get_min_capability(Trace.result.value.cls)

\* the fatal gate passing at exactly the minimum
C9_Witness ==
    /\ GateCalled
    /\ call.args.error
    /\ call.args.min_capability = 89
    /\ device_capability = <<8, 9>>
    /\ call.result = Returned(TRUE)

CacheScaleCalled == call.fn = "get_cache_scale" /\ call.state = "done"

\* C10 as claimed: a name ending in ".output_scale" with a ".k_proj"
\* (".v_proj") marker is rewritten to a different name ending in
\* ".attn.k_scale" (".attn.v_scale"); any other name gives None.
C10_Original ==
    CacheScaleCalled =>
        LET name == call.args.name
            result == call.result.value
            is_scale == endswith(name, ".output_scale")
            k == contains(name, ".k_proj")
            v == contains(name, ".v_proj")
        IN  /\ call.result.raised = "None"
            /\ is_scale /\ k =>
                  /\ result # None
                  /\ endswith(result[1], ".attn.k_scale")
                  /\ result[1] # name
            /\ is_scale /\ v /\ ~k =>
                  /\ result # None
                  /\ endswith(result[1], ".attn.v_scale")
                  /\ result[1] # name
            /\ ~is_scale \/ ~(k \/ v) => result = None

MethodCalled(fn) == call.fn = fn /\ call.state = "done"

\* C11 as claimed: on a layer whose scheme is absent or None, apply raises
\* ValueError; on a layer with a scheme attached, apply and create_weights
\* delegate exactly once to the scheme's apply_weights / create_weights; the
\* layer's scheme is left as it was.
C11_Original ==
    /\ MethodCalled("apply") /\ layer.scheme \in {Unset, None}
           => call.result = Raised("ValueError") /\ call.delegated = <<>>
    /\ MethodCalled("create_weights") /\ layer.scheme \in {Unset, None}
           => call.result.raised # "None" /\ call.delegated = <<>>
    /\ MethodCalled("apply") /\ layer.scheme \notin {Unset, None}
           => /\ call.result.raised = "None"
              /\ call.delegated = <<Delegation(layer.scheme, "apply_weights")>>
    /\ MethodCalled("create_weights") /\ layer.scheme \notin {Unset, None}
           => /\ call.result.raised = "None"
              /\ call.delegated = <<Delegation(layer.scheme, "create_weights")>>

\* the match of the layer against the quantization targets
QuantMatch ==
    find_matched_target(layer.name, layer.class, DOMAIN config.target_scheme_map,
                        config.packed_modules_mapping)

\* the match of the layer against the sparsity targets that are not ignored
SparsityMatch ==
    find_matched_target(layer.name, layer.class,
                        DOMAIN config.sparsity_scheme_map \ config.sparsity_ignore_list,
                        config.packed_modules_mapping)

\* C12: in get_scheme, with an empty target_scheme_map no quantization match
\* is attempted and weight_quant and input_quant are None; with a non-empty
\* one a failed quantization match ends the call with its ValueError and no
\* scheme, and a successful one gives the matched target's arguments; a failed
\* sparsity match leaves sparsity_scheme None and selection goes on with those
\* arguments, never ending in the ValueError.
C12_TargetMatchFailure ==
    SchemeCalled =>
        IF DOMAIN config.target_scheme_map = {}
        THEN /\ Trace.weight_quant = None
             /\ Trace.input_quant = None
             /\ Trace.cutlass # NotCalled
             /\ Trace.result.raised # "ValueError"
             /\ SparsityMatch.raised # "None" => Trace.sparsity_scheme = None
        ELSE IF QuantMatch.raised # "None"
        THEN /\ Trace.result = Raised("ValueError")
             /\ Trace.cutlass = NotCalled
             /\ layer.scheme = Unset
        ELSE /\ Trace.weight_quant = config.target_scheme_map[QuantMatch.value].weights
             /\ Trace.input_quant =
                    config.target_scheme_map[QuantMatch.value].input_activations
             /\ Trace.cutlass # NotCalled
             /\ Trace.result.raised # "ValueError"
             /\ SparsityMatch.raised # "None" => Trace.sparsity_scheme = None
             /\ SparsityMatch.raised = "None" =>
                    Trace.sparsity_scheme = config.sparsity_scheme_map[SparsityMatch.value]

\* the fused qkv_proj layer matches the class target but none of the sparsity
\* targets that the config has, and still gets its weight-only scheme
C12_Witness ==
    /\ SchemeCalled
    /\ QuantMatch = Returned("Linear")
    /\ DOMAIN config.sparsity_scheme_map \ config.sparsity_ignore_list # {}
    /\ SparsityMatch = Raised("ValueError")
    /\ Trace.sparsity_scheme = None
    /\ Trace.weight_quant = Int4Group
    /\ IsScheme(Trace.result, {"CompressedTensorsWNA16"})
    /\ layer.scheme = Trace.result.value

ActivationSchemeClasses ==
    {"CompressedTensorsW8A8Fp8", "CompressedTensorsW8A16Fp8", "CompressedTensorsW8A8Int8"}

\* which of the four predicates, in the order FP8 w8a8, FP8 w8a16, static
\* per-tensor INT8, dynamic per-token INT8, is the first to hold (0: none)
FirstPredicate(weight_quant, input_quant) ==
    IF is_fp8_w8a8(weight_quant, input_quant) THEN 1
    ELSE IF is_fp8_w8a16(weight_quant, input_quant) THEN 2
    ELSE IF input_quant # None /\ is_static_tensor_w8a8(weight_quant, input_quant).value
    THEN 3
    ELSE IF input_quant # None /\ is_dynamic_token_w8a8(weight_quant, input_quant).value
    THEN 4
    ELSE 0

\* the scheme class each predicate stands for
SchemeOfPredicate(i) ==
    CASE i = 1 -> "CompressedTensorsW8A8Fp8"
      [] i = 2 -> "CompressedTensorsW8A16Fp8"
      [] i \in {3, 4} -> "CompressedTensorsW8A8Int8"
      [] OTHER -> "none"

\* the weight-only N-bit branch is entered and ends the call (without vllm)
WeightOnlyEnds(weight_quant, input_quant) ==
    /\ input_quant = None
    /\ weight_quant.strategy \in {CHANNEL, GROUP}
    /\ weight_quant.symmetric
    /\ ~weight_quant.dynamic
    /\ \/ ~VLLM_AVAILABLE
       \/ config.quant_format = marlin_24
       \/ config.quant_format = pack_quantized
          /\ weight_quant.num_bits \in WNA16_SUPPORTED_BITS

\* C13 as claimed: an activation-quantizing scheme is returned only under an
\* activation-quantizing format, and it is the scheme of the first of the
\* four predicates that holds.
C13_Original ==
    PartsCalled /\ IsScheme(Trace.parts, ActivationSchemeClasses) =>
        /\ is_activation_quantization_format(config.quant_format)
        /\ Trace.parts.value.cls =
               SchemeOfPredicate(FirstPredicate(Trace.weight_quant, Trace.input_quant))

\* C13 amended: an activation-quantizing scheme is returned only under an
\* activation-quantizing format; under such a format, unless the weight-only
\* branch ended the call, the outcome is that of the branch of the first
\* predicate that holds: for FP8 w8a8 the W8A8Fp8 scheme, or the W8A16Fp8
\* scheme on a device below W8A8Fp8's minimum capability; for FP8 w8a16 the
\* W8A16Fp8 scheme (ImportError without vllm); for the INT8 predicates never
\* an FP8 scheme; and no scheme at all when none holds.
C13_FirstPredicateDecides ==
    PartsCalled =>
        /\ IsScheme(Trace.parts, ActivationSchemeClasses)
               => is_activation_quantization_format(config.quant_format)
        /\ /\ is_activation_quantization_format(config.quant_format)
           /\ ~WeightOnlyEnds(Trace.weight_quant, Trace.input_quant)
           => LET first == FirstPredicate(Trace.weight_quant, Trace.input_quant)
              IN  CASE first = 1 ->
                         IsScheme(Trace.parts,
                             {IF Capability >= get_min_capability("CompressedTensorsW8A8Fp8")
                              THEN "CompressedTensorsW8A8Fp8"
                              ELSE "CompressedTensorsW8A16Fp8"})
                    [] first = 2 ->
                         IF VLLM_AVAILABLE
                         THEN IsScheme(Trace.parts, {"CompressedTensorsW8A16Fp8"})
                         ELSE Trace.parts = Raised("ImportError")
                    [] first \in {3, 4} ->
                         ~IsScheme(Trace.parts, {"CompressedTensorsW8A8Fp8",
                                                 "CompressedTensorsW8A16Fp8"})
                    [] OTHER -> Trace.parts.raised # "None"

\* FP8 weights with an INT 8-bit static per-tensor activation: FP8 w8a16 and
\* static INT8 both hold, and the earlier one, FP8 w8a16, gives the scheme
C13_Witness ==
    /\ PartsCalled
    /\ Trace.input_quant # None
    /\ Trace.input_quant.type = INT
    /\ FirstPredicate(Trace.weight_quant, Trace.input_quant) = 2
    /\ is_static_tensor_w8a8(Trace.weight_quant, Trace.input_quant).value
    /\ IsScheme(Trace.parts, {"CompressedTensorsW8A16Fp8"})
    /\ layer.scheme = Trace.parts.value

FromConfigCalled ==
    call.fn = "_quantization_scheme_map_from_config" /\ call.state = "done"

\* the config groups of the raw config, in order, and its format
Groups == call.args.config.config_groups

Format == call.args.config.format

TargetsOf(group) == {group.targets[i] : i \in 1..Len(group.targets)}

\* the last group, in processing order, that lists the target
LastGroupOf(target) ==
    Groups[CHOOSE i \in 1..Len(Groups) :
               /\ target \in TargetsOf(Groups[i])
               /\ \A j \in (i + 1)..Len(Groups) : target \notin TargetsOf(Groups[j])]

\* a group with a target and without input_activations, under an
\* activation-quantizing format, whose weights are not FLOAT
ActivationsMissing(group) ==
    /\ group.targets # <<>>
    /\ group.weights # None
    /\ is_activation_quantization_format(Format)
    /\ group.input_activations = None
    /\ group.weights.type # FLOAT

\* a group with a target whose weights do not validate
WeightsInvalid(group) == group.targets # <<>> /\ group.weights = None

\* C14: construction fails when a group that has a target lacks
\* input_activations under an activation-quantizing format and its weights
\* are not FLOAT (or its weights do not validate); otherwise the map has
\* exactly the targets of the groups, and each target's entry comes from the
\* last group listing it: the validated weights, and input_activations None
\* when the format is not activation-quantizing or the group supplies none,
\* else the validated activation arguments.
C14_SchemeMapFromConfig ==
    FromConfigCalled =>
        IF \E i \in 1..Len(Groups) : WeightsInvalid(Groups[i]) \/ ActivationsMissing(Groups[i])
        THEN /\ call.result.raised \in {"AssertionError", "ValidationError"}
             /\ (\A i \in 1..Len(Groups) : ~WeightsInvalid(Groups[i]))
                    => call.result = Raised("AssertionError")
        ELSE /\ call.result.raised = "None"
             /\ DOMAIN call.result.value = UNION {TargetsOf(Groups[i]) : i \in 1..Len(Groups)}
             /\ \A target \in DOMAIN call.result.value :
                    LET group == LastGroupOf(target)
                        entry == call.result.value[target]
                    IN  /\ entry.weights = model_validate(group.weights).value
                        /\ entry.input_activations =
                               IF ~is_activation_quantization_format(Format)
                                  \/ group.input_activations = None
                               THEN None
                               ELSE model_validate(group.input_activations).value

\* two groups list "Linear" with different weights under an
\* activation-quantizing format: the entry is the second group's, with its
\* validated activation arguments
C14_Witness ==
    /\ FromConfigCalled
    /\ is_activation_quantization_format(Format)
    /\ Len(Groups) = 2
    /\ "Linear" \in TargetsOf(Groups[1]) \cap TargetsOf(Groups[2])
    /\ Groups[1].weights = RawFP8
    /\ Groups[1].input_activations = None
    /\ Groups[2].weights = RawInt8
    /\ call.result.raised = "None"
    /\ call.result.value["Linear"].weights.type = INT
    /\ call.result.value["Linear"].input_activations
           = model_validate(RawInt8Token).value

====
